---------------------------- MODULE Spec2Model ----------------------------
(***************************************************************************)
(* Regime-aware pricing system: jump detector, volatility engine, regime   *)
(* engine, mispricing engine, regime-label consumers and the decision      *)
(* stage of main().                                                        *)
(*                                                                         *)
(* Floating point values are modelled as tagged pairs: <<"num", v>> is the *)
(* fixed-point number v (the unit is stated where the value is used),      *)
(* <<"nan", 0>> is NaN and <<"inf", s>> is s * infinity.  Comparisons      *)
(* follow IEEE 754: every ordered comparison with NaN is false.            *)
(***************************************************************************)
EXTENDS Integers, Sequences, FiniteSets, TLC

VARIABLES
    pc,               \* position of the operation under analysis
    \* ---- decision stage of main() ----
    config,           \* resolved configuration (mispricing, kelly, decision)
    model_price,      \* merton_call result, cents
    noise,            \* the draw of np.random.normal(0, 0.05), milli
    market_price,     \* mock market price, cents
    sigma_t,          \* volatility.iloc[-1], micro (1e-6)
    uncertainty_t,    \* uncertainty.iloc[-1], micro (1e-6)
    probs,            \* last row of regime_probs, milli
    mispricing,       \* milli
    confidence,       \* milli
    direction,        \* -1, 0, +1
    position,         \* milli
    verdict,
    \* ---- MispricingEngine.compute_mispricing ----
    mis_market, mis_model, mis_cfg, mis_out,
    \* ---- JumpDetector.detect_jumps ----
    returns, jd_cfg, is_jump, jump_returns, diffusion_returns,
    \* ---- VolatilityEngine ----
    vol_returns, vol_cfg, vol_call, garch_fit, vol_probs, vol_out,
    \* ---- RegimeEngine.detect_regimes ----
    reg_vol, reg_jump, reg_cfg, regimes,
    \* ---- regime label consumers ----
    lab_call, lab_out,
    \* ---- stateless functions (pricing, jump parameters, log returns) ----
    fn_call,          \* the function called and its arguments
    fn_out,           \* what the call returned or raised
    \* ---- DriftEngine ----
    kf,               \* the engine's Kalman filter: x, P, Q, R
    drift_cfg,        \* constructor parameters
    drift_call,       \* arguments of the latest estimate_drift call
    drift_out,        \* what that call returned or raised
    calls             \* number of estimate_drift calls made on the engine

decVars == <<config, model_price, noise, market_price, sigma_t, uncertainty_t, probs,
             mispricing, confidence, direction, position, verdict>>
misVars == <<mis_market, mis_model, mis_cfg, mis_out>>
jumpVars == <<returns, jd_cfg, is_jump, jump_returns, diffusion_returns>>
volVars == <<vol_returns, vol_cfg, vol_call, garch_fit, vol_probs, vol_out>>
regVars == <<reg_vol, reg_jump, reg_cfg, regimes>>
labVars == <<lab_call, lab_out>>
fnVars == <<fn_call, fn_out>>
driftVars == <<kf, drift_cfg, drift_call, drift_out, calls>>
extVars == <<fnVars, driftVars>>
vars == <<pc, decVars, misVars, jumpVars, volVars, regVars, labVars, extVars>>

-----------------------------------------------------------------------------
(* Floating point values.                                                  *)

Num(v) == <<"num", v>>
NaN == <<"nan", 0>>
Inf(s) == <<"inf", s>>
IsNaN(x) == x[1] = "nan"
IsNum(x) == x[1] = "num"
IsInf(x) == x[1] = "inf"
IsFinite(x) == IsNum(x)
Val(x) == x[2]

\* Largest magnitude the fixed-point arithmetic keeps exact.
MaxExact == 2000000000

Abs(a) == IF a < 0 THEN -a ELSE a
Sgn(a) == IF a < 0 THEN -1 ELSE IF a > 0 THEN 1 ELSE 0
\* Integer division rounding toward zero.
DivT(a, b) == Sgn(a) * Sgn(b) * (Abs(a) \div Abs(b))
\* a * b / s, evaluated in the order that keeps the intermediate in range.
MulDiv(a, b, s) ==
    IF Abs(b) > 0 /\ Abs(a) > MaxExact \div Abs(b)
    THEN (IF Abs(a) >= Abs(b) THEN DivT(a, s) * b ELSE a * DivT(b, s))
    ELSE DivT(a * b, s)

FSign(x) == IF IsInf(x) THEN Val(x) ELSE Sgn(Val(x))

Lt(x, y) ==
    /\ ~IsNaN(x)
    /\ ~IsNaN(y)
    /\ IF IsNum(x) /\ IsNum(y) THEN Val(x) < Val(y)
       ELSE IF IsInf(x) /\ IsInf(y) THEN Val(x) < Val(y)
       ELSE IF IsInf(x) THEN Val(x) < 0
       ELSE Val(y) > 0
Gt(x, y) == Lt(y, x)
Le(x, y) == ~IsNaN(x) /\ ~IsNaN(y) /\ ~Lt(y, x)
Ge(x, y) == Le(y, x)
FEq(x, y) == ~IsNaN(x) /\ ~IsNaN(y) /\ x = y

FNeg(x) == IF IsNaN(x) THEN NaN ELSE <<x[1], -Val(x)>>
FAbs(x) == IF IsNaN(x) THEN NaN ELSE <<x[1], Abs(Val(x))>>
FAdd(x, y) ==
    IF IsNaN(x) \/ IsNaN(y) THEN NaN
    ELSE IF IsInf(x) /\ IsInf(y) THEN (IF Val(x) = Val(y) THEN x ELSE NaN)
    ELSE IF IsInf(x) THEN x
    ELSE IF IsInf(y) THEN y
    ELSE Num(Val(x) + Val(y))
FSub(x, y) == FAdd(x, FNeg(y))
\* x * y for fixed-point operands whose units multiply to s times the result's.
FMul(x, y, s) ==
    IF IsNaN(x) \/ IsNaN(y) THEN NaN
    ELSE IF IsInf(x) \/ IsInf(y)
         THEN (IF FSign(x) * FSign(y) = 0 THEN NaN ELSE Inf(FSign(x) * FSign(y)))
    ELSE Num(MulDiv(Val(x), Val(y), s))
\* x / y as numpy evaluates it (no exception: x/0 is +-inf, 0/0 is NaN); the
\* result is in units of 1/s of the quotient of the operands' units.
FDiv(x, y, s) ==
    IF IsNaN(x) \/ IsNaN(y) THEN NaN
    ELSE IF IsInf(x) /\ IsInf(y) THEN NaN
    ELSE IF IsInf(x) THEN Inf(FSign(x) * (IF FSign(y) < 0 THEN -1 ELSE 1))
    ELSE IF IsInf(y) THEN Num(0)
    ELSE IF Val(y) = 0
         THEN (IF Val(x) = 0 THEN NaN ELSE Inf(Sgn(Val(x))))
    ELSE Num(DivT(Val(x) * s, Val(y)))

\* Python's builtin min(a, b) / max(a, b): the first argument is kept unless
\* the second compares strictly smaller / larger.
PyMin(a, b) == IF Lt(b, a) THEN b ELSE a
PyMax(a, b) == IF Gt(b, a) THEN b ELSE a

Range(s) == {s[i] : i \in DOMAIN s}

-----------------------------------------------------------------------------
(* MispricingEngine (modules/mispricing_engine.py).  Prices are in cents,  *)
(* the relative deviation and the signal threshold in milli (1e-3), the    *)
(* smoothing factor in percent.                                            *)

\* One step of pandas' exponentially weighted mean with adjust=True and
\* ignore_na=False: st is the running state [w: weighted average, old: weight
\* of the history in milli], cur the next value.
ewm_step(st, cur, alpha) ==
    IF ~IsNaN(st.w)
    THEN LET old == (st.old * (100 - alpha)) \div 100
         IN  IF ~IsNaN(cur)
             THEN [w |-> IF st.w # cur
                         THEN FDiv(FAdd(FMul(Num(old), st.w, 1),
                                        FMul(Num(1000), cur, 1)),
                                   Num(old + 1000), 1)
                         ELSE st.w,
                   old |-> old + 1000]
             ELSE [w |-> st.w, old |-> old]
    ELSE IF ~IsNaN(cur) THEN [w |-> cur, old |-> st.old]
    ELSE st

RECURSIVE ewm_state(_, _, _)
ewm_state(raw, alpha, i) ==
    IF i = 1 THEN [w |-> raw[1], old |-> 1000]
    ELSE ewm_step(ewm_state(raw, alpha, i - 1), raw[i], alpha)

\* raw.ewm(alpha=alpha).mean()
ewm_mean(raw, alpha) == [i \in 1..Len(raw) |-> ewm_state(raw, alpha, i).w]

\* The dead zone: smoothed[np.abs(smoothed) < min_signal_strength] = 0.0
dead_zone(x, min_signal_strength) ==
    IF Lt(FAbs(x), Num(min_signal_strength)) THEN Num(0) ELSE x

\* raw = (market_price - model_price) / model_price
raw_deviation(market, model) ==
    [i \in 1..Len(market) |-> FDiv(FSub(market[i], model[i]), model[i], 1000)]

compute_mispricing(market, model, cfg) ==
    LET smoothed == ewm_mean(raw_deviation(market, model), cfg.ema_alpha)
    IN  [i \in 1..Len(market) |-> dead_zone(smoothed[i], cfg.min_signal_strength)]

-----------------------------------------------------------------------------
(* Decision stage of main() (main.py).  Confidence, position, caps and     *)
(* the Kelly fraction are in milli; volatility, risk and drift uncertainty *)
(* in micro (1e-6).                                                        *)

\* 1 / (1 + exp(-5 (x - 0.5))) at x = 0, 0.1, ..., 1, in milli.
SigTable == <<76, 119, 182, 269, 378, 500, 622, 731, 818, 881, 924>>

\* sigmoid(x, k=5.0) for 0 <= x <= 1 (x in milli), interpolated linearly
\* between the tabulated points.
sigmoid(x) ==
    IF ~IsNum(x) THEN (IF IsNaN(x) THEN NaN
                       ELSE IF Val(x) > 0 THEN Num(1000) ELSE Num(0))
    ELSE LET v == Val(x)
             i == v \div 100
         IN  IF v <= 0 THEN Num(SigTable[1])
             ELSE IF i >= 10 THEN Num(SigTable[11])
             ELSE Num(SigTable[i + 1]
                      + ((SigTable[i + 2] - SigTable[i + 1]) * (v - 100 * i)) \div 100)

\* A bias that keeps the sign of the mispricing.
raw_bias_signed(m, threshold) == PyMin(Num(1000), FDiv(m, Num(threshold), 1000))

\* raw_bias = min(1.0, abs(mispricing) / threshold)
raw_bias(m, threshold) == PyMin(Num(1000), FDiv(FAbs(m), Num(threshold), 1000))

direction_of(m) == IF Lt(m, Num(0)) THEN 1 ELSE IF Gt(m, Num(0)) THEN -1 ELSE 0

\* The floor of the risk in base_kelly, 1e-6.
RiskFloor == 1

base_kelly(conf, sigma, kel) ==
    LET risk == FMul(sigma, Num(kel.jump_risk_multiplier), 1000)
    IN  FDiv(conf, PyMax(risk, Num(RiskFloor)), 1000000)

penalty(unc, kel) ==
    FDiv(Num(1000), FAdd(Num(1000000), FMul(Num(kel.uncertainty_scale), unc, 1)),
         1000000)

kelly_fraction(conf, sigma, unc, kel) ==
    FMul(FMul(Num(kel.fraction), base_kelly(conf, sigma, kel), 1000),
         penalty(unc, kel), 1000)

max_cap(p, kel) ==
    FAdd(FAdd(FMul(Num(kel.bull_max_position), Num(p.bull), 1000),
              FMul(Num(kel.sideways_max_position), Num(p.sideways), 1000)),
         FMul(Num(kel.crisis_max_position), Num(p.crisis), 1000))

\* The sizing without its final clamp.
clamp_position_missing(pos, kel) == pos

\* position = max(-max_position, min(max_position, position))
clamp_position(pos, kel) ==
    PyMax(Num(-kel.max_position), PyMin(Num(kel.max_position), pos))

sized_position(dir, conf, sigma, unc, p, kel) ==
    clamp_position(
        FMul(Num(dir), PyMin(kelly_fraction(conf, sigma, unc, kel), max_cap(p, kel)), 1),
        kel)

\* The refusal condition without its crisis gate.
refused_without_crisis_gate(m, conf, pos, p, cfg) ==
    \/ FEq(m, Num(0))
    \/ Le(conf, Num(cfg.min_confidence))
    \/ Lt(FAbs(pos), Num(cfg.min_position))

\* The condition under which main() leaves the verdict at REFUSE.
refused(m, conf, pos, p, cfg) ==
    \/ FEq(m, Num(0))
    \/ Le(conf, Num(cfg.min_confidence))
    \/ Lt(FAbs(pos), Num(cfg.min_position))
    \/ (Gt(Num(p.crisis), Num(500)) /\ ~cfg.allow_crisis_trades)

final_verdict(m, conf, pos, p, cfg) ==
    IF ~refused(m, conf, pos, p, cfg)
    THEN (IF Lt(m, Num(0)) THEN "BUY"
          ELSE IF Gt(m, Num(0)) THEN "SELL"
          ELSE "REFUSE")
    ELSE "REFUSE"

-----------------------------------------------------------------------------
(* Values every component starts from when it is not the one under         *)
(* analysis.                                                               *)

Unset == <<"unset", 0>>

decIdle ==
    /\ config = [ema_alpha |-> 30]
    /\ model_price = Unset /\ noise = 0 /\ market_price = Unset
    /\ sigma_t = Unset /\ uncertainty_t = Unset
    /\ probs = [bull |-> 0, sideways |-> 1000, crisis |-> 0]
    /\ mispricing = Unset /\ confidence = Unset /\ direction = 0
    /\ position = Unset /\ verdict = "REFUSE"
misIdle ==
    /\ mis_market = <<>> /\ mis_model = <<>>
    /\ mis_cfg = [ema_alpha |-> 30] /\ mis_out = Unset
jumpIdle ==
    /\ returns = <<>> /\ jd_cfg = [window |-> 5]
    /\ is_jump = <<>> /\ jump_returns = <<>> /\ diffusion_returns = <<>>
volIdle ==
    /\ vol_returns = <<>> /\ vol_cfg = [min_variance |-> 100]
    /\ vol_call = "none" /\ garch_fit = "none" /\ vol_probs = <<>>
    /\ vol_out = Unset
regIdle ==
    /\ reg_vol = <<>> /\ reg_jump = <<>> /\ regimes = <<>>
    /\ reg_cfg = [vol_window |-> 60]
labIdle ==
    /\ lab_call = [component |-> "none"] /\ lab_out = Unset
fnIdle ==
    /\ fn_call = [fn |-> "none"] /\ fn_out = Unset
driftIdle ==
    /\ kf = Unset /\ drift_cfg = [adaptive |-> TRUE]
    /\ drift_call = [returns |-> <<>>] /\ drift_out = Unset /\ calls = 0
extIdle == fnIdle /\ driftIdle

-----------------------------------------------------------------------------
(* The decision pipeline of main(): from the model price to the verdict.   *)

notDec == <<misVars, jumpVars, volVars, regVars, labVars, extVars>>

\* The triples detect_regimes can put in a row of regime_probs.
TripleSideways == [bull |-> 0, sideways |-> 1000, crisis |-> 0]
TripleCrisis == [bull |-> 0, sideways |-> 300, crisis |-> 700]
TripleBull == [bull |-> 700, sideways |-> 300, crisis |-> 0]
RegimeTriples == {TripleSideways, TripleCrisis, TripleBull}

ConfigSet ==
    [ema_alpha : {30}, min_signal_strength : {10}, buy_threshold : {20, 50},
     fraction : {250}, max_position : {0, 200}, min_position : {0, 10},
     jump_risk_multiplier : {1500}, uncertainty_scale : {100},
     bull_max_position : {1000}, sideways_max_position : {500},
     crisis_max_position : {100},
     min_confidence : {300, 900}, allow_crisis_trades : BOOLEAN]
ModelPrices == {Num(0), Num(1000), NaN}
Noises == {-80, -30, -5, 0, 5, 30, 80}
Sigmas == {NaN, Num(0), Num(1000), Num(20000), Num(5000000)}
Uncertainties == {NaN, Num(0), Num(100), Num(50000)}

DecisionInit ==
    /\ pc = "pricing"
    /\ config \in ConfigSet
    /\ model_price \in ModelPrices
    /\ noise \in Noises
    /\ sigma_t \in Sigmas
    /\ uncertainty_t \in Uncertainties
    /\ probs \in RegimeTriples
    /\ market_price = Unset /\ mispricing = Unset /\ confidence = Unset
    /\ direction = 0 /\ position = Unset /\ verdict = "REFUSE"
    /\ misIdle /\ jumpIdle /\ volIdle /\ regIdle /\ labIdle /\ extIdle

\* market_price = model_price * (1 + np.random.normal(0, 0.05))
MockMarketPrice ==
    /\ pc = "pricing"
    /\ market_price' = FMul(model_price, Num(1000 + noise), 1000)
    /\ pc' = "mispricing"
    /\ UNCHANGED <<config, model_price, noise, sigma_t, uncertainty_t, probs,
                   mispricing, confidence, direction, position, verdict>>
    /\ UNCHANGED notDec

\* mis_engine.compute_mispricing(pd.Series([market]), pd.Series([model])).iloc[-1]
ComputeMispricing ==
    /\ pc = "mispricing"
    /\ mispricing' = compute_mispricing(<<market_price>>, <<model_price>>, config)[1]
    /\ pc' = "confidence"
    /\ UNCHANGED <<config, model_price, noise, market_price, sigma_t,
                   uncertainty_t, probs, confidence, direction, position, verdict>>
    /\ UNCHANGED notDec

BiasAndConfidence ==
    /\ pc = "confidence"
    /\ confidence' = sigmoid(raw_bias(mispricing, config.buy_threshold))
    /\ direction' = direction_of(mispricing)
    /\ pc' = "sizing"
    /\ UNCHANGED <<config, model_price, noise, market_price, sigma_t,
                   uncertainty_t, probs, mispricing, position, verdict>>
    /\ UNCHANGED notDec

KellySizing ==
    /\ pc = "sizing"
    /\ position' = sized_position(direction, confidence, sigma_t, uncertainty_t,
                                  probs, config)
    /\ pc' = "verdict"
    /\ UNCHANGED <<config, model_price, noise, market_price, sigma_t,
                   uncertainty_t, probs, mispricing, confidence, direction, verdict>>
    /\ UNCHANGED notDec

FinalVerdict ==
    /\ pc = "verdict"
    /\ verdict' = final_verdict(mispricing, confidence, position, probs, config)
    /\ pc' = "done"
    /\ UNCHANGED <<config, model_price, noise, market_price, sigma_t,
                   uncertainty_t, probs, mispricing, confidence, direction, position>>
    /\ UNCHANGED notDec

DecisionNext ==
    \/ MockMarketPrice
    \/ ComputeMispricing
    \/ BiasAndConfidence
    \/ KellySizing
    \/ FinalVerdict

Spec == DecisionInit /\ [][DecisionNext]_vars

-----------------------------------------------------------------------------
(* Claims about the decision stage.                                        *)

\* The four gates of the verdict.  "mispricing # 0" is read as "mispricing is
\* a number other than zero": an undefined mispricing has no sign.
GatesHold ==
    /\ (Lt(mispricing, Num(0)) \/ Gt(mispricing, Num(0)))
    /\ Gt(confidence, Num(config.min_confidence))
    /\ Ge(FAbs(position), Num(config.min_position))
    /\ (Le(Num(probs.crisis), Num(500)) \/ config.allow_crisis_trades)

\* C1: at the end of the decision stage the verdict is BUY or SELL if and only
\* if all four gates hold (mispricing # 0, confidence > min_confidence,
\* |position| >= min_position, crisis probability <= 0.5 or crisis trades
\* allowed); it is then BUY exactly when mispricing < 0 and SELL exactly when
\* mispricing > 0; in every other case it is REFUSE, and in particular
\* confidence <= min_confidence always gives REFUSE.
C1_VerdictGates ==
    pc = "done" =>
        /\ verdict \in {"BUY", "SELL", "REFUSE"}
        /\ (verdict \in {"BUY", "SELL"}) <=> GatesHold
        /\ GatesHold => /\ (verdict = "BUY") <=> Lt(mispricing, Num(0))
                        /\ (verdict = "SELL") <=> Gt(mispricing, Num(0))
        /\ ~GatesHold => verdict = "REFUSE"
        /\ Le(confidence, Num(config.min_confidence)) => verdict = "REFUSE"

\* A run in which every other gate holds and only the crisis gate refuses.
C1_Witness ==
    /\ pc = "done"
    /\ Lt(mispricing, Num(0))
    /\ Gt(confidence, Num(config.min_confidence))
    /\ Ge(FAbs(position), Num(config.min_position))
    /\ config.min_position > 0
    /\ probs.crisis > 500 /\ ~config.allow_crisis_trades
    /\ verdict = "REFUSE"

\* C2: the final position produced by the sizing lies in
\* [-max_position, max_position], whatever the confidence, volatility, drift
\* uncertainty, regime triple and caps, NaN intermediates included.
C2_PositionBounded ==
    pc \in {"verdict", "done"} =>
        /\ Le(Num(-config.max_position), position)
        /\ Le(position, Num(config.max_position))

\* Zero volatility: confidence / max(risk, 1e-6) is huge and the clamp acts.
C2_Witness ==
    /\ pc = "done"
    /\ sigma_t = Num(0)
    /\ config.max_position > 0
    /\ Gt(kelly_fraction(confidence, sigma_t, uncertainty_t, config),
          Num(1000 * config.max_position))
    /\ position = Num(config.max_position)

-----------------------------------------------------------------------------
(* MispricingEngine.compute_mispricing called on whole price series.       *)

notMis == <<decVars, jumpVars, volVars, regVars, labVars, extVars>>

\* Longest price series analysed.
MaxObs == 3

Prices == {Num(0), Num(100), Num(102), Num(150)}
MisConfigs == [ema_alpha : {30}, min_signal_strength : {10}]

\* All sequences over S of length 0..n.
SeqsUpTo(S, n) == UNION {[1..k -> S] : k \in 0..n}

MispricingInit ==
    /\ pc = "call"
    /\ mis_market \in SeqsUpTo(Prices, MaxObs)
    /\ mis_model \in [1..Len(mis_market) -> Prices]
    /\ mis_cfg \in MisConfigs
    /\ mis_out = Unset
    /\ decIdle /\ jumpIdle /\ volIdle /\ regIdle /\ labIdle /\ extIdle

\* The call returns its series: no statement of compute_mispricing raises, a
\* division by a zero model price gives inf or NaN in the result.
CallComputeMispricing ==
    /\ pc = "call"
    /\ mis_out' = [status |-> "returned",
                   value |-> compute_mispricing(mis_market, mis_model, mis_cfg)]
    /\ pc' = "done"
    /\ UNCHANGED <<mis_market, mis_model, mis_cfg>>
    /\ UNCHANGED notMis

MispricingNext == CallComputeMispricing

SpecMispricing == MispricingInit /\ [][MispricingNext]_vars

\* C9: a model price of zero at any observation is rejected before the
\* division: the call signals the violation and returns no infinite or
\* undefined mispricing value.
C9_ZeroModelPriceRejected ==
    (pc = "done" /\ \E i \in DOMAIN mis_model : mis_model[i] = Num(0)) =>
        mis_out.status = "error"

\* C10: every value of the returned series is exactly 0 or has absolute value
\* >= min_signal_strength.
C10_DeadZone ==
    (pc = "done" /\ mis_out.status = "returned") =>
        \A i \in DOMAIN mis_out.value :
            \/ mis_out.value[i] = Num(0)
            \/ Ge(FAbs(mis_out.value[i]), Num(mis_cfg.min_signal_strength))

-----------------------------------------------------------------------------
(* JumpDetector.detect_jumps (modules/jump_detector.py).  Returns are in   *)
(* percent; the threshold is the fraction threshold_num / threshold_den.   *)
(* Rolling statistics are kept as exact integers: twice the median, four   *)
(* times the median absolute deviation, n times the mean.                  *)

\* min_periods of every rolling window in detect_jumps.
MinPeriods == 5

RECURSIVE SumOver(_, _)
SumOver(P, f) ==
    IF P = {} THEN 0
    ELSE LET j == CHOOSE j \in P : TRUE IN f[j] + SumOver(P \ {j}, f)

\* The k-th smallest of the values f[j], j in P.
KthOf(P, f, k) ==
    CHOOSE v \in {f[j] : j \in P} :
        /\ Cardinality({j \in P : f[j] < v}) < k
        /\ Cardinality({j \in P : f[j] <= v}) >= k

\* Twice the median of the values f[j], j in P (P not empty).
Median2(P, f) ==
    LET n == Cardinality(P)
    IN  IF n % 2 = 1 THEN 2 * KthOf(P, f, (n + 1) \div 2)
        ELSE KthOf(P, f, n \div 2) + KthOf(P, f, n \div 2 + 1)

\* returns.dropna(): the observations that hold a number, in order.
IsObservation(x) == ~IsNaN(x)
dropna(rs) == SelectSeq(rs, IsObservation)

\* The position in returns_clean of the observation at position i of returns.
clean_index(rs, i) == Len(dropna(SubSeq(rs, 1, i)))

\* The positions of the rolling window of returns_clean that ends at k.
WindowPos(k, window) == (IF k > window THEN k - window + 1 ELSE 1)..k

ValOf(c) == [j \in DOMAIN c |-> Val(c[j])]

\* rolling(window, min_periods=5).median() at k, doubled; NaN when the window
\* holds fewer than min_periods observations.
rolling_median2(c, k, window) ==
    LET P == WindowPos(k, window)
    IN  IF Cardinality(P) >= MinPeriods THEN Num(Median2(P, ValOf(c))) ELSE NaN

\* (returns_clean - rolling_median).abs() at k, doubled.
abs_dev2(c, k, window) ==
    LET m == rolling_median2(c, k, window)
    IN  IF IsNaN(m) THEN NaN ELSE Num(Abs(2 * Val(c[k]) - Val(m)))

\* rolling_mad at k, times four: the rolling median of the defined deviations.
rolling_mad4(c, k, window) ==
    LET dev == [j \in WindowPos(k, window) |-> abs_dev2(c, j, window)]
        P == {j \in DOMAIN dev : ~IsNaN(dev[j])}
    IN  IF Cardinality(P) >= MinPeriods
        THEN Num(Median2(P, [j \in P |-> Val(dev[j])]))
        ELSE NaN

\* |z_scores| > threshold at k with rolling_std = rolling_mad * 1.4826.  The
\* center is the rolling mean.  A zero spread divides to +-inf (a jump) unless
\* the return equals the mean (0/0 = NaN, no jump).
robust_exceeds(c, k, cfg) ==
    LET P == WindowPos(k, cfg.window)
        n == Cardinality(P)
        S == SumOver(P, ValOf(c))
        mad4 == rolling_mad4(c, k, cfg.window)
    IN  /\ n >= MinPeriods
        /\ ~IsNaN(mad4)
        /\ IF Val(mad4) = 0 THEN n * Val(c[k]) # S
           ELSE Abs(n * Val(c[k]) - S) * cfg.threshold_den * 40000
                    > cfg.threshold_num * Val(mad4) * 14826 * n

\* |z_scores| > threshold at k with rolling_std = rolling(...).std() (ddof=1),
\* compared on the squares.
std_exceeds(c, k, cfg) ==
    LET P == WindowPos(k, cfg.window)
        n == Cardinality(P)
        v == ValOf(c)
        S == SumOver(P, v)
        Q == SumOver(P, [j \in P |-> v[j] * v[j]])
        d == n * Val(c[k]) - S
    IN  /\ n >= MinPeriods
        /\ IF n * Q - S * S = 0 THEN d # 0
           ELSE d * d * (n - 1) * cfg.threshold_den * cfg.threshold_den
                    > cfg.threshold_num * cfg.threshold_num * n * (n * Q - S * S)

\* is_jump after fillna(False) and reindex(returns.index, fill_value=False).
jump_flags(rs, cfg) ==
    LET c == dropna(rs)
    IN  [i \in DOMAIN rs |->
            /\ ~IsNaN(rs[i])
            /\ IF cfg.use_robust THEN robust_exceeds(c, clean_index(rs, i), cfg)
               ELSE std_exceeds(c, clean_index(rs, i), cfg)]

\* The early return for len(returns) < min_observations is missing.
insufficient_never(rs, cfg) == FALSE

insufficient(rs, cfg) == Len(rs) < cfg.min_observations

\* jump_returns[~is_jump] = 0.0 / diffusion_returns[is_jump] = 0.0 zero the
\* other component as well.
separate_both_zeroed(rs, flags) ==
    [is_jump |-> flags,
     jump_returns |-> [i \in DOMAIN rs |-> IF flags[i] THEN rs[i] ELSE Num(0)],
     diffusion_returns |-> [i \in DOMAIN rs |-> Num(0)]]

\* jump_returns[~is_jump] = 0.0; diffusion_returns[is_jump] = 0.0
separate(rs, flags) ==
    [is_jump |-> flags,
     jump_returns |-> [i \in DOMAIN rs |-> IF flags[i] THEN rs[i] ELSE Num(0)],
     diffusion_returns |-> [i \in DOMAIN rs |-> IF flags[i] THEN Num(0) ELSE rs[i]]]

detect_jumps(rs, cfg) ==
    IF insufficient(rs, cfg)
    THEN [is_jump |-> [i \in DOMAIN rs |-> FALSE],
          jump_returns |-> [i \in DOMAIN rs |-> Num(0)],
          diffusion_returns |-> rs]
    ELSE separate(rs, jump_flags(rs, cfg))

notJump == <<decVars, misVars, volVars, regVars, labVars, extVars>>

\* Longest return series analysed.
MaxReturns == 9

\* Most missing values in a return series analysed.
MaxNaN == 1

ReturnVals == {NaN, Num(0), Num(9)}
ReturnSeries ==
    {rs \in SeqsUpTo(ReturnVals, MaxReturns) :
        Cardinality({j \in DOMAIN rs : IsNaN(rs[j])}) <= MaxNaN}
\* Thresholds 1.5 and, for the robust estimator, 0.1.
JumpConfigs ==
    [threshold_num : {3}, threshold_den : {2}, window : {5},
     min_observations : {6}, use_robust : BOOLEAN]
    \cup [threshold_num : {3}, threshold_den : {30}, window : {5},
          min_observations : {6}, use_robust : {TRUE}]

JumpInit ==
    /\ pc = "call"
    /\ returns \in ReturnSeries
    /\ jd_cfg \in JumpConfigs
    /\ is_jump = <<>> /\ jump_returns = <<>> /\ diffusion_returns = <<>>
    /\ decIdle /\ misIdle /\ volIdle /\ regIdle /\ labIdle /\ extIdle

CallDetectJumps ==
    /\ pc = "call"
    /\ LET out == detect_jumps(returns, jd_cfg)
       IN  /\ is_jump' = out.is_jump
           /\ jump_returns' = out.jump_returns
           /\ diffusion_returns' = out.diffusion_returns
    /\ pc' = "done"
    /\ UNCHANGED <<returns, jd_cfg>>
    /\ UNCHANGED notJump

JumpNext == CallDetectJumps

SpecJump == JumpInit /\ [][JumpNext]_vars

\* C3: at every timestamp jump_return + diffusion_return is the original
\* return, jump_return is 0 where is_jump is false and diffusion_return is 0
\* where is_jump is true, on the normal and on the insufficient-data path.  A
\* missing return (NaN) counts as equal to itself: it is passed through.
C3_Conservation ==
    pc = "done" =>
        /\ DOMAIN is_jump = DOMAIN returns
        /\ DOMAIN jump_returns = DOMAIN returns
        /\ DOMAIN diffusion_returns = DOMAIN returns
        /\ \A i \in DOMAIN returns :
            /\ FAdd(jump_returns[i], diffusion_returns[i]) = returns[i]
            /\ ~is_jump[i] => jump_returns[i] = Num(0)
            /\ is_jump[i] => diffusion_returns[i] = Num(0)

\* The normal path on a series with a detected jump, a missing value and a
\* non-zero diffusion return.
C3_Witness ==
    /\ pc = "done"
    /\ ~insufficient(returns, jd_cfg)
    /\ \E i \in DOMAIN returns : is_jump[i] /\ jump_returns[i] = Num(9)
    /\ \E i \in DOMAIN returns : IsNaN(returns[i])
    /\ \E i \in DOMAIN returns : ~is_jump[i] /\ diffusion_returns[i] = Num(9)

\* C4: a series with fewer than min_observations entries comes back with
\* is_jump false and jump_returns 0 at every timestamp and diffusion_returns
\* equal to the input, all on the input's index.
C4_InsufficientData ==
    (pc = "done" /\ Len(returns) < jd_cfg.min_observations) =>
        /\ DOMAIN is_jump = DOMAIN returns
        /\ DOMAIN jump_returns = DOMAIN returns
        /\ diffusion_returns = returns
        /\ \A i \in DOMAIN returns : ~is_jump[i] /\ jump_returns[i] = Num(0)

\* A short series whose last return the rolling statistics would flag.
C4_Witness ==
    /\ pc = "done"
    /\ Len(returns) = MinPeriods
    /\ Len(returns) < jd_cfg.min_observations
    /\ jump_flags(returns, jd_cfg)[Len(returns)]
    /\ diffusion_returns = returns

-----------------------------------------------------------------------------
(* VolatilityEngine (modules/volatility_engine.py).  Returns and           *)
(* volatilities are in basis points (1e-4), variances in 1e-8, decay       *)
(* factors in percent, regime probabilities in milli.                      *)

\* The default min_periods of ewma_volatility.
EwmaMinPeriods == 20

\* The decay of the EWMA that garch_volatility falls back to, 0.90.
FallbackLambda == 90

RECURSIVE IsqrtBetween(_, _, _)
IsqrtBetween(n, lo, hi) ==
    IF lo >= hi THEN lo
    ELSE LET mid == (lo + hi + 1) \div 2
         IN  IF mid * mid <= n THEN IsqrtBetween(n, mid, hi)
             ELSE IsqrtBetween(n, lo, mid - 1)

\* np.sqrt on a non-negative fixed-point value, rounded down.
Isqrt(n) == IsqrtBetween(n, 0, IF n < 46340 THEN n ELSE 46340)

\* returns_squared.ewm(alpha=1-lambda_decay, adjust=False).mean() at t:
\* y_1 = x_1, y_t = lambda * y_(t-1) + (1 - lambda) * x_t.
RECURSIVE ewm_variance(_, _, _)
ewm_variance(rs, lambda_decay, t) ==
    IF t = 1 THEN rs[1] * rs[1]
    ELSE (lambda_decay * ewm_variance(rs, lambda_decay, t - 1)
          + (100 - lambda_decay) * rs[t] * rs[t]) \div 100

\* ewma_volatility: the first min_periods - 1 entries of the EWMA are NaN;
\* clip(lower=min_variance) and np.sqrt keep them NaN.
ewma_volatility(rs, lambda_decay, cfg) ==
    [t \in DOMAIN rs |->
        IF t < EwmaMinPeriods THEN NaN
        ELSE LET v == ewm_variance(rs, lambda_decay, t)
             IN  Num(Isqrt(IF v < cfg.min_variance THEN cfg.min_variance ELSE v))]

Returned(v) == [status |-> "returned", value |-> v]
Raised(e) == [status |-> "error", value |-> e]

\* A garch_volatility whose fallback uses the bull decay.
garch_volatility_bull_fallback(rs, cfg, fit) ==
    IF fit.outcome = "ok"
    THEN Returned([t \in DOMAIN rs |->
            Num(IF fit.level < Isqrt(cfg.min_variance)
                THEN Isqrt(cfg.min_variance) ELSE fit.level)])
    ELSE Returned(ewma_volatility(rs, cfg.bull_lambda, cfg))

\* garch_volatility: the fit is external; when it succeeds its conditional
\* volatility (here the level fit.level at every index) is floored at
\* sqrt(min_variance); any exception inside the try block is caught and the
\* EWMA with decay 0.90 is returned.
garch_volatility(rs, cfg, fit) ==
    IF fit.outcome = "ok"
    THEN Returned([t \in DOMAIN rs |->
            Num(IF fit.level < Isqrt(cfg.min_variance)
                THEN Isqrt(cfg.min_variance) ELSE fit.level)])
    ELSE Returned(ewma_volatility(rs, FallbackLambda, cfg))

estimate_regime_volatility(rs, regime, cfg, fit) ==
    IF regime = "bull" THEN Returned(ewma_volatility(rs, cfg.bull_lambda, cfg))
    ELSE IF regime = "sideways" THEN garch_volatility(rs, cfg, fit)
    ELSE IF regime = "crisis" THEN Returned(ewma_volatility(rs, cfg.crisis_lambda, cfg))
    ELSE Raised("ValueError")

\* sigma_eff = sum over the regimes of P(regime) * sigma_regime, per index.
compute_effective_volatility(rs, p, cfg, fit) ==
    LET vol_bull == estimate_regime_volatility(rs, "bull", cfg, fit)
        vol_sideways == estimate_regime_volatility(rs, "sideways", cfg, fit)
        vol_crisis == estimate_regime_volatility(rs, "crisis", cfg, fit)
    IN  IF vol_sideways.status = "error" THEN vol_sideways
        ELSE Returned([t \in DOMAIN rs |->
                FAdd(FAdd(FMul(vol_bull.value[t], Num(p[t].bull), 1000),
                          FMul(vol_sideways.value[t], Num(p[t].sideways), 1000)),
                     FMul(vol_crisis.value[t], Num(p[t].crisis), 1000))])

notVol == <<decVars, misVars, jumpVars, regVars, labVars, extVars>>

\* Longest diffusion-return series analysed, and the period of its pattern.
MaxVolLen == 21
VolPeriod == 2

VolReturnVals == {0, 5, 200}
VolSeries ==
    {[t \in 1..n |-> pat[((t - 1) % VolPeriod) + 1]] :
        n \in 0..MaxVolLen, pat \in [1..VolPeriod -> VolReturnVals]}
VolConfigs ==
    [bull_lambda : {94}, crisis_lambda : {85}, garch_p : {1}, garch_q : {1},
     min_variance : {100}]
GarchFits ==
    [outcome : {"ok"}, level : {5, 150}]
        \cup [outcome : {"build_error", "fit_error", "result_error"}, level : {0}]
VolCalls ==
    [fn : {"ewma_volatility"}, lambda_decay : {94, 85}]
        \cup [fn : {"garch_volatility"}]
        \cup [fn : {"estimate_regime_volatility"}, regime : {"bull", "sideways", "crisis"}]
        \cup [fn : {"compute_effective_volatility"}]

VolInit ==
    /\ pc = "call"
    /\ vol_returns \in VolSeries
    /\ vol_cfg \in VolConfigs
    /\ vol_call \in VolCalls
    /\ garch_fit \in GarchFits
    /\ \E p \in RegimeTriples : vol_probs = [t \in DOMAIN vol_returns |-> p]
    /\ vol_out = Unset
    /\ decIdle /\ misIdle /\ jumpIdle /\ regIdle /\ labIdle /\ extIdle

CallEwmaVolatility ==
    /\ pc = "call" /\ vol_call.fn = "ewma_volatility"
    /\ vol_out' = Returned(ewma_volatility(vol_returns, vol_call.lambda_decay, vol_cfg))
    /\ pc' = "done"
    /\ UNCHANGED <<vol_returns, vol_cfg, vol_call, garch_fit, vol_probs>>
    /\ UNCHANGED notVol

CallGarchVolatility ==
    /\ pc = "call" /\ vol_call.fn = "garch_volatility"
    /\ vol_out' = garch_volatility(vol_returns, vol_cfg, garch_fit)
    /\ pc' = "done"
    /\ UNCHANGED <<vol_returns, vol_cfg, vol_call, garch_fit, vol_probs>>
    /\ UNCHANGED notVol

CallEstimateRegimeVolatility ==
    /\ pc = "call" /\ vol_call.fn = "estimate_regime_volatility"
    /\ vol_out' = estimate_regime_volatility(vol_returns, vol_call.regime,
                                              vol_cfg, garch_fit)
    /\ pc' = "done"
    /\ UNCHANGED <<vol_returns, vol_cfg, vol_call, garch_fit, vol_probs>>
    /\ UNCHANGED notVol

CallComputeEffectiveVolatility ==
    /\ pc = "call" /\ vol_call.fn = "compute_effective_volatility"
    /\ vol_out' = compute_effective_volatility(vol_returns, vol_probs, vol_cfg,
                                                garch_fit)
    /\ pc' = "done"
    /\ UNCHANGED <<vol_returns, vol_cfg, vol_call, garch_fit, vol_probs>>
    /\ UNCHANGED notVol

VolNext ==
    \/ CallEwmaVolatility
    \/ CallGarchVolatility
    \/ CallEstimateRegimeVolatility
    \/ CallComputeEffectiveVolatility

SpecVol == VolInit /\ [][VolNext]_vars

\* C5: every value of a returned volatility series is a defined number
\* >= sqrt(min_variance) at every index of the input returns, the earliest
\* indices and series shorter than the EWMA min_periods included.
C5_VolatilityFloored ==
    (pc = "done" /\ vol_out.status = "returned") =>
        /\ DOMAIN vol_out.value = DOMAIN vol_returns
        /\ \A t \in DOMAIN vol_out.value :
            Ge(vol_out.value[t], Num(Isqrt(vol_cfg.min_variance)))

\* C6: whenever the GARCH fit fails, garch_volatility returns exactly the
\* series ewma_volatility(returns, lambda_decay=0.90) returns, and
\* estimate_regime_volatility('sideways') and compute_effective_volatility
\* complete without error.
C6_GarchFallback ==
    (pc = "done" /\ garch_fit.outcome # "ok") =>
        /\ vol_out.status = "returned"
        /\ (vol_call.fn = "garch_volatility"
              \/ (vol_call.fn = "estimate_regime_volatility"
                    /\ vol_call.regime = "sideways")) =>
                vol_out.value = ewma_volatility(vol_returns, 90, vol_cfg)

\* A failed fit on a series long enough for the fallback to report numbers
\* that differ from the bull EWMA.
C6_Witness ==
    /\ pc = "done"
    /\ vol_call.fn = "garch_volatility"
    /\ garch_fit.outcome = "fit_error"
    /\ Len(vol_returns) >= EwmaMinPeriods
    /\ vol_out.status = "returned"
    /\ IsNum(vol_out.value[Len(vol_returns)])
    /\ vol_out.value # ewma_volatility(vol_returns, vol_cfg.bull_lambda, vol_cfg)

-----------------------------------------------------------------------------
(* RegimeEngine.detect_regimes (modules/regime_engine.py).  The rolling    *)
(* rank and the rolling jump rate are exact fractions num/den; percentile  *)
(* and jump-rate thresholds are in percent, probabilities in milli.        *)

Undefined == [finite |-> FALSE, num |-> 0, den |-> 1]
Fraction(n, d) == [finite |-> TRUE, num |-> n, den |-> d]

\* volatility.rolling(vol_window).apply(rank(pct=True).iloc[-1]) at t: the
\* average rank of the last value of the window over the window size; NaN
\* until the window is full and while it holds a NaN.
vol_rank(volatility, t, cfg) ==
    IF t < cfg.vol_window THEN Undefined
    ELSE LET w == (t - cfg.vol_window + 1)..t
         IN  IF \E k \in w : ~IsNum(volatility[k]) THEN Undefined
             ELSE LET less == Cardinality({k \in w : Lt(volatility[k], volatility[t])})
                      equal == Cardinality({k \in w : FEq(volatility[k], volatility[t])})
                  IN  Fraction(2 * less + equal + 1, 2 * cfg.vol_window)

\* is_jump.rolling(jump_window).mean() at t.
jump_rate(jumps, t, cfg) ==
    IF t < cfg.jump_window THEN Undefined
    ELSE Fraction(Cardinality({k \in (t - cfg.jump_window + 1)..t : jumps[k]}),
                  cfg.jump_window)

Triple(b, s, c) == [bull |-> b, sideways |-> s, crisis |-> c]

\* A decision policy whose crisis branch leaves the sideways weight at 0.
regime_row_crisis_only(v, j, cfg) ==
    IF ~v.finite \/ ~j.finite THEN Triple(0, 1000, 0)
    ELSE IF \/ v.num * 100 > cfg.high_vol_pct * v.den
            \/ j.num * 100 > cfg.jump_rate_threshold * j.den
         THEN Triple(0, 0, 700)
    ELSE IF /\ v.num * 100 < cfg.low_vol_pct * v.den
            /\ j.num * 200 < cfg.jump_rate_threshold * j.den
         THEN Triple(700, 300, 0)
    ELSE Triple(0, 1000, 0)

\* A decision policy that tests the bull condition before the crisis one.
regime_row_bull_first(v, j, cfg) ==
    IF ~v.finite \/ ~j.finite THEN Triple(0, 1000, 0)
    ELSE IF /\ v.num * 100 < cfg.low_vol_pct * v.den
            /\ j.num * 200 < cfg.jump_rate_threshold * j.den
         THEN Triple(700, 300, 0)
    ELSE IF \/ v.num * 100 > cfg.high_vol_pct * v.den
            \/ j.num * 100 > cfg.jump_rate_threshold * j.den
         THEN Triple(0, 300, 700)
    ELSE Triple(0, 1000, 0)

\* The body of the loop over the volatility index: every row starts as
\* (0, 0, 0) and one branch of the policy fills it.
regime_row(v, j, cfg) ==
    IF ~v.finite \/ ~j.finite THEN Triple(0, 1000, 0)
    ELSE IF \/ v.num * 100 > cfg.high_vol_pct * v.den
            \/ j.num * 100 > cfg.jump_rate_threshold * j.den
         THEN Triple(0, 300, 700)
    ELSE IF /\ v.num * 100 < cfg.low_vol_pct * v.den
            /\ j.num * 200 < cfg.jump_rate_threshold * j.den
         THEN Triple(700, 300, 0)
    ELSE Triple(0, 1000, 0)

detect_regimes(volatility, jumps, cfg) ==
    [t \in DOMAIN volatility |->
        regime_row(vol_rank(volatility, t, cfg), jump_rate(jumps, t, cfg), cfg)]

notReg == <<decVars, misVars, jumpVars, volVars, labVars, extVars>>

\* Longest volatility series classified.
MaxRegLen == 5

RegVolVals == {NaN, Num(10), Num(20)}
RegimeConfigs ==
    [vol_window : {4}, jump_window : {2, 4}, high_vol_pct : {80},
     low_vol_pct : {30}, jump_rate_threshold : {5, 60}]
        \cup [vol_window : {4}, jump_window : {2}, high_vol_pct : {20},
              low_vol_pct : {30}, jump_rate_threshold : {60}]

RegimeInit ==
    /\ pc = "call"
    /\ \E n \in 0..MaxRegLen :
        /\ reg_vol \in [1..n -> RegVolVals]
        /\ reg_jump \in [1..n -> BOOLEAN]
    /\ reg_cfg \in RegimeConfigs
    /\ regimes = <<>>
    /\ decIdle /\ misIdle /\ jumpIdle /\ volIdle /\ labIdle /\ extIdle

CallDetectRegimes ==
    /\ pc = "call"
    /\ regimes' = detect_regimes(reg_vol, reg_jump, reg_cfg)
    /\ pc' = "done"
    /\ UNCHANGED <<reg_vol, reg_jump, reg_cfg>>
    /\ UNCHANGED notReg

RegimeNext == CallDetectRegimes

SpecRegime == RegimeInit /\ [][RegimeNext]_vars

\* C7: at every timestamp of the volatility index the returned triple has
\* three non-negative entries that sum to 1, whichever branch was taken.
C7_TripleSumsToOne ==
    pc = "done" =>
        /\ DOMAIN regimes = DOMAIN reg_vol
        /\ \A t \in DOMAIN regimes :
            /\ regimes[t].bull >= 0
            /\ regimes[t].sideways >= 0
            /\ regimes[t].crisis >= 0
            /\ regimes[t].bull + regimes[t].sideways + regimes[t].crisis = 1000

\* One call whose rows take the insufficient-history, the bull and the
\* crisis branch.
C7_Witness ==
    /\ pc = "done"
    /\ Len(regimes) = MaxRegLen
    /\ ~vol_rank(reg_vol, 1, reg_cfg).finite
    /\ \E t \in DOMAIN regimes : regimes[t].bull = 700
    /\ \E t \in DOMAIN regimes : regimes[t].crisis = 700

-----------------------------------------------------------------------------
(* The components that take a regime label: VolatilityEngine                *)
(* .estimate_regime_volatility, DriftEngine.update_regime_parameters and   *)
(* KellyEngine.compute_kelly.                                              *)

KnownRegimes == {"bull", "sideways", "crisis"}

\* KalmanFilter(dim_x=1, dim_z=1) starts with R = eye(1), in micro.
InitialR == 1000000

\* update_regime_parameters: Q, R, state_noise_factor and min_obs_variance in
\* micro, volatility in milli; a label other than the three known ones
\* takes the else branch, q_mult = 1.0.  The record is the assignment to
\* kf.Q and, when adaptive, to kf.R (which otherwise keeps its initial value).
update_regime_parameters(c) ==
    LET q_mult == IF c.regime = "bull" THEN 1
                  ELSE IF c.regime = "sideways" THEN 3
                  ELSE IF c.regime = "crisis" THEN 10
                  ELSE 1
        r_val == PyMax(FMul(c.volatility, c.volatility, 1),
                       Num(c.min_obs_variance))
    IN  [status |-> "returned",
         Q |-> c.state_noise_factor * q_mult,
         R |-> IF ~c.adaptive THEN Num(InitialR)
               ELSE IF c.regime = "crisis" THEN FMul(r_val, Num(2), 1)
               ELSE r_val]

\* compute_kelly: mispricing, the caps and the result in milli, volatility
\* in tenths; regime_caps.get(regime, self.max_position) gives an unknown
\* label the cap max_position.
compute_kelly(c) ==
    IF ~IsNum(c.volatility) \/ Val(c.volatility) <= 0
    THEN [status |-> "returned", value |-> 0]
    ELSE LET v == Val(c.volatility)
             raw_kelly == DivT(c.mispricing * 100, v * v)
             fractional == DivT(c.fraction * raw_kelly, 1000)
             after_jump == DivT(fractional * 1000,
                                1000 + DivT(c.jump_risk_multiplier * c.jump_intensity, 1000))
             after_unc == DivT(after_jump * 1000,
                               1000 + DivT(c.uncertainty_scale * c.uncertainty, 1000))
             directional == Sgn(after_unc)
                              * (IF Abs(after_unc) < c.max_position
                                 THEN Abs(after_unc) ELSE c.max_position)
             regime_cap == IF c.regime \in DOMAIN c.regime_caps
                           THEN c.regime_caps[c.regime] ELSE c.max_position
             clipped == IF directional < -regime_cap THEN -regime_cap
                        ELSE IF directional > regime_cap THEN regime_cap
                        ELSE directional
         IN  [status |-> "returned",
              value |-> IF Abs(clipped) < c.min_position THEN 0 ELSE clipped]

notLab == <<decVars, misVars, jumpVars, volVars, regVars, extVars>>

RegimeLabels == KnownRegimes \cup {"unknown", ""}
LabelReturns == {<<>>, <<0, 200>>, <<200, 5, 0>>}

VolLabelCalls ==
    [component : {"VolatilityEngine"}, regime : RegimeLabels,
     returns : LabelReturns, cfg : VolConfigs, fit : GarchFits]
DriftLabelCalls ==
    [component : {"DriftEngine"}, regime : RegimeLabels,
     volatility : {NaN, Num(0), Num(20)}, adaptive : BOOLEAN,
     state_noise_factor : {10}, min_obs_variance : {1}]
KellyLabelCalls ==
    [component : {"KellyEngine"}, regime : RegimeLabels,
     mispricing : {-300, 0, 300}, volatility : {NaN, Num(0), Num(5), Num(10)},
     jump_intensity : {0, 1000}, uncertainty : {0, 100},
     regime_caps : {[bull |-> 1000, sideways |-> 500, crisis |-> 100]},
     fraction : {250}, max_position : {200}, min_position : {10},
     jump_risk_multiplier : {1500}, uncertainty_scale : {100}]

LabelInit ==
    /\ pc = "call"
    /\ lab_call \in VolLabelCalls \cup DriftLabelCalls \cup KellyLabelCalls
    /\ lab_out = Unset
    /\ decIdle /\ misIdle /\ jumpIdle /\ volIdle /\ regIdle /\ extIdle

CallEstimateRegimeVolatilityWithLabel ==
    /\ pc = "call" /\ lab_call.component = "VolatilityEngine"
    /\ lab_out' = estimate_regime_volatility(lab_call.returns, lab_call.regime,
                                              lab_call.cfg, lab_call.fit)
    /\ pc' = "done"
    /\ UNCHANGED lab_call
    /\ UNCHANGED notLab

CallUpdateRegimeParameters ==
    /\ pc = "call" /\ lab_call.component = "DriftEngine"
    /\ lab_out' = update_regime_parameters(lab_call)
    /\ pc' = "done"
    /\ UNCHANGED lab_call
    /\ UNCHANGED notLab

CallComputeKelly ==
    /\ pc = "call" /\ lab_call.component = "KellyEngine"
    /\ lab_out' = compute_kelly(lab_call)
    /\ pc' = "done"
    /\ UNCHANGED lab_call
    /\ UNCHANGED notLab

LabelNext ==
    \/ CallEstimateRegimeVolatilityWithLabel
    \/ CallUpdateRegimeParameters
    \/ CallComputeKelly

SpecLabel == LabelInit /\ [][LabelNext]_vars

\* C8: a regime label other than 'bull', 'sideways' or 'crisis' passed to
\* any of the three components ends in a hard error; none of them answers
\* with a default multiplier or cap.
C8_UnknownLabelRaises ==
    (pc = "done" /\ lab_call.regime \notin KnownRegimes) =>
        lab_out.status = "error"

-----------------------------------------------------------------------------
(* PricingEngine (modules/pricing_engine.py).  Prices are in cents; T, r,  *)
(* sigma, lam, mu_j, sigma_j and the Poisson weights in milli.  The        *)
(* closed Black-Scholes formula is kept as the term bs(S, K, T, r, sigma); *)
(* it is finite for finite arguments.                                      *)

RECURSIVE Factorial(_)
Factorial(k) == IF k <= 1 THEN 1 ELSE k * Factorial(k - 1)

RECURSIVE ExpSeries(_, _, _, _)
ExpSeries(x, i, term, acc) ==
    IF term = 0 THEN acc
    ELSE LET next == DivT(term * x, 1000 * i)
         IN  ExpSeries(x, i + 1, next, acc + next)

\* math.exp(x), by its power series.
ExpM(x) == ExpSeries(x, 1, 1000, 1000)

\* x ** k; Python gives 0.0 ** 0 = 1.0.
RECURSIVE PowM(_, _)
PowM(x, k) == IF k = 0 THEN 1000 ELSE DivT(PowM(x, k - 1) * x, 1000)

\* np.sqrt: NaN below zero.
FSqrt(x) ==
    IF IsNaN(x) THEN NaN
    ELSE IF IsInf(x) THEN (IF Val(x) > 0 THEN x ELSE NaN)
    ELSE IF Val(x) < 0 THEN NaN
    ELSE Num(Isqrt(Val(x)))

IsTerm(v) == v[1] = "bs"

black_scholes_call(S, K, T, r, sigma) ==
    IF T <= 0 \/ Le(sigma, Num(0)) THEN PyMax(Num(S - K), Num(0))
    ELSE IF ~IsNum(sigma) \/ ~IsNum(r) THEN NaN
    ELSE <<"bs", S, K, T, Val(r), Val(sigma)>>

\* A Poisson weight that takes (lam * T) ** 0 for lam * T itself.
poisson_weight_no_zeroth_power(lam, T, k) ==
    LET lamT == DivT(lam * T, 1000)
    IN  DivT(DivT(ExpM(-lamT) * (IF k = 0 THEN lamT ELSE PowM(lamT, k)), 1000),
             Factorial(k))

\* math.exp(-lam * T) * (lam * T) ** k / math.factorial(k)
poisson_weight(lam, T, k) ==
    LET lamT == DivT(lam * T, 1000)
    IN  DivT(DivT(ExpM(-lamT) * PowM(lamT, k), 1000), Factorial(k))

\* np.sqrt(sigma**2 + (k * sigma_j**2) / T), T # 0 or numpy operands.
sigma_k(sigma, sigma_j, T, k) ==
    FSqrt(FAdd(FMul(sigma, sigma, 1), FDiv(Num(k * sigma_j * sigma_j), Num(T), 1000)))

\* r - lam * (math.exp(mu_j + 0.5 * sigma_j**2) - 1) + (k * mu_j) / T
r_k(r, lam, mu_j, sigma_j, T, k) ==
    FAdd(Num(r - DivT(lam * (ExpM(mu_j + DivT(sigma_j * sigma_j, 2000)) - 1000), 1000)),
         FDiv(Num(k * mu_j), Num(T), 1000))

\* poisson_weight * black_scholes_call(...): zero times a finite price is
\* zero, a weighted formula term stays a term.
weighted(w, v) ==
    IF IsNaN(v) THEN NaN
    ELSE IF IsTerm(v) THEN (IF w = 0 THEN Num(0) ELSE <<"term", w, v>>)
    ELSE FMul(Num(w), v, 1000)

IsWeightedTerm(c) == c[1] = "term"
IsNumeric(c) == c[1] = "num"

\* price = 0.0; price += ... over the terms: a single formula term of
\* weight 1 added to zero is that term's price.
price_sum(cs) ==
    LET terms == SelectSeq(cs, IsWeightedTerm)
        numeric == SumOver({i \in DOMAIN cs : IsNumeric(cs[i])},
                           [i \in DOMAIN cs |-> cs[i][2]])
    IN  IF \E i \in DOMAIN cs : IsNaN(cs[i]) THEN NaN
        ELSE IF terms = <<>> THEN Num(numeric)
        ELSE IF Len(terms) = 1 /\ terms[1][2] = 1000 /\ numeric = 0 THEN terms[1][3]
        ELSE <<"sum", numeric, terms>>

\* merton_call; with Python floats a zero T raises ZeroDivisionError at
\* (k * sigma_j**2) / T, with numpy operands the quotient is inf or NaN.
merton_call(c) ==
    IF c.T = 0 /\ ~c.numpy_params THEN Raised("ZeroDivisionError")
    ELSE Returned(price_sum(
            [i \in 1..c.n_terms |->
                weighted(poisson_weight(c.lam, c.T, i - 1),
                         black_scholes_call(c.S, c.K, c.T,
                             r_k(c.r, c.lam, c.mu_j, c.sigma_j, c.T, i - 1),
                             sigma_k(c.sigma, c.sigma_j, c.T, i - 1)))]))

notFn == <<decVars, misVars, jumpVars, volVars, regVars, labVars, driftVars>>

\* Largest n_terms of a merton_call.
MaxTerms == 3

PricingArgs ==
    [S : {9000, 10000}, K : {9000, 10000}, T : {-500, 0, 119}, r : {50},
     sigma : {NaN, Num(0), Num(200)}]
BlackScholesCalls ==
    {[fn |-> "black_scholes_call", S |-> a.S, K |-> a.K, T |-> a.T, r |-> a.r,
      sigma |-> a.sigma] : a \in PricingArgs}
MertonCalls ==
    {[fn |-> "merton_call", S |-> a.S, K |-> a.K, T |-> a.T, r |-> a.r,
      sigma |-> a.sigma, lam |-> j.lam, mu_j |-> j.mu_j, sigma_j |-> j.sigma_j,
      n_terms |-> j.n_terms, numpy_params |-> j.numpy_params] :
        a \in PricingArgs,
        j \in [lam : {0, 500}, mu_j : {-50, 0}, sigma_j : {0, 100},
               n_terms : 1..MaxTerms, numpy_params : BOOLEAN]}

PricingInit ==
    /\ pc = "call"
    /\ fn_call \in BlackScholesCalls \cup MertonCalls
    /\ fn_out = Unset
    /\ decIdle /\ misIdle /\ jumpIdle /\ volIdle /\ regIdle /\ labIdle /\ driftIdle

CallBlackScholes ==
    /\ pc = "call" /\ fn_call.fn = "black_scholes_call"
    /\ fn_out' = Returned(black_scholes_call(fn_call.S, fn_call.K, fn_call.T,
                                             Num(fn_call.r), fn_call.sigma))
    /\ pc' = "done"
    /\ UNCHANGED fn_call
    /\ UNCHANGED notFn

CallMerton ==
    /\ pc = "call" /\ fn_call.fn = "merton_call"
    /\ fn_out' = merton_call(fn_call)
    /\ pc' = "done"
    /\ UNCHANGED fn_call
    /\ UNCHANGED notFn

PricingNext ==
    \/ CallBlackScholes
    \/ CallMerton

SpecPricing == PricingInit /\ [][PricingNext]_vars

\* C11: with lam = 0, T > 0 and sigma > 0, merton_call returns the price
\* black_scholes_call(S, K, T, r, sigma) returns: the weight of term 0 is 1,
\* the weight of every later term is 0, and term 0 keeps sigma and r.
C11_ZeroIntensityIsBlackScholes ==
    (/\ pc = "done" /\ fn_call.fn = "merton_call"
     /\ fn_call.lam = 0 /\ fn_call.T > 0 /\ Gt(fn_call.sigma, Num(0))) =>
        /\ \A k \in 0..(fn_call.n_terms - 1) :
            poisson_weight(fn_call.lam, fn_call.T, k) = (IF k = 0 THEN 1000 ELSE 0)
        /\ sigma_k(fn_call.sigma, fn_call.sigma_j, fn_call.T, 0) = fn_call.sigma
        /\ r_k(fn_call.r, fn_call.lam, fn_call.mu_j, fn_call.sigma_j, fn_call.T, 0)
              = Num(fn_call.r)
        /\ fn_out = [status |-> "returned",
                     value |-> <<"bs", fn_call.S, fn_call.K, fn_call.T,
                                 fn_call.r, Val(fn_call.sigma)>>]

\* A zero-intensity call with several terms and non-trivial jump parameters.
C11_Witness ==
    /\ pc = "done" /\ fn_call.fn = "merton_call"
    /\ fn_call.lam = 0 /\ fn_call.T > 0 /\ Gt(fn_call.sigma, Num(0))
    /\ fn_call.n_terms = MaxTerms /\ fn_call.mu_j # 0 /\ fn_call.sigma_j # 0
    /\ fn_out.status = "returned" /\ IsTerm(fn_out.value)

\* C20: for T <= 0 black_scholes_call and merton_call both return
\* max(S - K, 0), without raising and without an infinite or undefined price.
C20_ExpiredIsIntrinsic ==
    (pc = "done" /\ fn_call.T <= 0) =>
        fn_out = [status |-> "returned",
                  value |-> Num(IF fn_call.S > fn_call.K
                                THEN fn_call.S - fn_call.K ELSE 0)]

-----------------------------------------------------------------------------
(* JumpDetector.estimate_jump_parameters (modules/jump_detector.py).       *)
(* Jump returns, mu_j and sigma_j are in basis points, lambda in milli.    *)

IsNonZero(x) == ~FEq(x, Num(0))

\* jump_returns[jump_returns != 0]
jumps_only(jr) == SelectSeq(jr, IsNonZero)

SeqSum(s) == SumOver(DOMAIN s, [i \in DOMAIN s |-> Val(s[i])])
SeqSumSq(s) == SumOver(DOMAIN s, [i \in DOMAIN s |-> Val(s[i]) * Val(s[i])])

\* Series.std(): the sample standard deviation (ddof = 1), NaN for one value.
sample_std(s) ==
    LET n == Len(s)
    IN  IF n < 2 THEN NaN
        ELSE Num(Isqrt(DivT(n * SeqSumSq(s) - SeqSum(s) * SeqSum(s), n * (n - 1))))

\* An intensity taken over the jumps instead of over all days.
jump_intensity_over_jumps(n_jumps, total_days) == DivT(n_jumps * 1000, n_jumps)

\* lambda_j = n_jumps / total_days
jump_intensity(n_jumps, total_days) == DivT(n_jumps * 1000, total_days)

estimate_jump_parameters(jr) ==
    LET only == jumps_only(jr)
    IN  IF Len(only) = 0
        THEN [mu_j |-> Num(0), sigma_j |-> Num(0), lambda |-> Num(0)]
        ELSE [mu_j |-> Num(DivT(SeqSum(only), Len(only))),
              sigma_j |-> sample_std(only),
              lambda |-> Num(jump_intensity(Len(only), Len(jr)))]

\* Longest jump-return series whose parameters are estimated.
MaxJumpLen == 5

JumpReturnVals == {Num(0), Num(-300), Num(200)}

JumpParamsInit ==
    /\ pc = "call"
    /\ \E n \in 0..MaxJumpLen :
        \E jr \in [1..n -> JumpReturnVals] :
            fn_call = [fn |-> "estimate_jump_parameters", jump_returns |-> jr]
    /\ fn_out = Unset
    /\ decIdle /\ misIdle /\ jumpIdle /\ volIdle /\ regIdle /\ labIdle /\ driftIdle

CallEstimateJumpParameters ==
    /\ pc = "call" /\ fn_call.fn = "estimate_jump_parameters"
    /\ fn_out' = Returned(estimate_jump_parameters(fn_call.jump_returns))
    /\ pc' = "done"
    /\ UNCHANGED fn_call
    /\ UNCHANGED notFn

JumpParamsNext == CallEstimateJumpParameters

SpecJumpParams == JumpParamsInit /\ [][JumpParamsNext]_vars

\* C12: lambda is the number of non-zero jump returns over the length of the
\* series, mu_j and sigma_j are the mean and the (sample) standard deviation
\* of the non-zero entries, each to the precision of its unit; without a
\* non-zero entry all three are 0.0.
C12_JumpParameters ==
    pc = "done" =>
        LET jr == fn_call.jump_returns
            J == {i \in DOMAIN jr : jr[i] # Num(0)}
            n == Cardinality(J)
            S == SumOver(J, [i \in DOMAIN jr |-> Val(jr[i])])
            Q == SumOver(J, [i \in DOMAIN jr |-> Val(jr[i]) * Val(jr[i])])
            p == fn_out.value
        IN  /\ fn_out.status = "returned"
            /\ n = 0 => p = [mu_j |-> Num(0), sigma_j |-> Num(0), lambda |-> Num(0)]
            /\ n > 0 =>
                /\ IsNum(p.lambda) /\ IsNum(p.mu_j)
                /\ Val(p.lambda) * Len(jr) <= n * 1000
                /\ n * 1000 < (Val(p.lambda) + 1) * Len(jr)
                /\ Abs(Val(p.mu_j)) * n <= Abs(S)
                /\ Abs(S) < (Abs(Val(p.mu_j)) + 1) * n
                /\ Val(p.mu_j) * S >= 0
                /\ n = 1 => IsNaN(p.sigma_j)
                /\ n > 1 =>
                    /\ IsNum(p.sigma_j) /\ Val(p.sigma_j) >= 0
                    /\ Val(p.sigma_j) * Val(p.sigma_j) * n * (n - 1) <= n * Q - S * S
                    /\ n * Q - S * S
                          < (Val(p.sigma_j) + 1) * (Val(p.sigma_j) + 1) * n * (n - 1)

\* Jumps of both signs among days without a jump.
C12_Witness ==
    /\ pc = "done" /\ fn_call.fn = "estimate_jump_parameters"
    /\ Len(fn_call.jump_returns) = MaxJumpLen
    /\ Len(jumps_only(fn_call.jump_returns)) = 3
    /\ Num(-300) \in Range(fn_call.jump_returns)
    /\ Num(200) \in Range(fn_call.jump_returns)
    /\ fn_out.value.lambda = Num(600)
    /\ Gt(fn_out.value.sigma_j, Num(0))

-----------------------------------------------------------------------------
(* The confidence of the decision stage as a function of the mispricing.   *)

\* confidence = sigmoid(min(1.0, abs(mispricing) / threshold))
confidence_of(m, threshold) == sigmoid(raw_bias(m, threshold))

\* Largest mispricing magnitude compared, milli.
MaxMispricing == 60

ConfidenceInit ==
    /\ pc = "call"
    /\ fn_call \in [fn : {"confidence"}, m1 : -MaxMispricing..MaxMispricing,
                    m2 : -MaxMispricing..MaxMispricing, buy_threshold : {20, 50}]
    /\ fn_out = Unset
    /\ decIdle /\ misIdle /\ jumpIdle /\ volIdle /\ regIdle /\ labIdle /\ driftIdle

ComputeConfidences ==
    /\ pc = "call" /\ fn_call.fn = "confidence"
    /\ fn_out' = <<confidence_of(Num(fn_call.m1), fn_call.buy_threshold),
                   confidence_of(Num(fn_call.m2), fn_call.buy_threshold)>>
    /\ pc' = "done"
    /\ UNCHANGED fn_call
    /\ UNCHANGED notFn

ConfidenceNext == ComputeConfidences

SpecConfidence == ConfidenceInit /\ [][ConfidenceNext]_vars

\* C13: for a fixed buy_threshold > 0 the confidence is non-decreasing in
\* |mispricing|, and constant once |mispricing| >= buy_threshold.
C13_ConfidenceMonotone ==
    pc = "done" =>
        /\ Abs(fn_call.m1) <= Abs(fn_call.m2) => Le(fn_out[1], fn_out[2])
        /\ (Abs(fn_call.m1) >= fn_call.buy_threshold
              /\ Abs(fn_call.m2) >= fn_call.buy_threshold) => fn_out[1] = fn_out[2]

\* Mispricings of opposite sign below the threshold, the larger in magnitude
\* with the strictly larger confidence.
C13_Witness ==
    /\ pc = "done" /\ fn_call.fn = "confidence"
    /\ fn_call.m1 > 0 /\ fn_call.m2 < 0
    /\ Abs(fn_call.m1) < Abs(fn_call.m2)
    /\ Abs(fn_call.m2) < fn_call.buy_threshold
    /\ Lt(fn_out[1], fn_out[2])

-----------------------------------------------------------------------------
(* calculate_log_returns (modules/jump_detector.py).  A series is a        *)
(* sequence of [ts, value] in index order; prices are in cents, price      *)
(* ratios and log returns in milli.                                        *)

\* np.log of a ratio, for the ratios of the prices analysed.
LnTable == [x \in {250, 500, 1000, 2000, 4000} |->
               CASE x = 250 -> -1386 [] x = 500 -> -693 [] x = 1000 -> 0
                 [] x = 2000 -> 693 [] x = 4000 -> 1386]
FLog(x) ==
    IF IsNaN(x) THEN NaN
    ELSE IF IsInf(x) THEN (IF Val(x) > 0 THEN x ELSE NaN)
    ELSE IF Val(x) < 0 THEN NaN
    ELSE IF Val(x) = 0 THEN Inf(-1)
    ELSE Num(LnTable[Val(x)])

\* A shift that brings the next value to each timestamp.
shift_from_next(s) ==
    [i \in DOMAIN s |->
        [ts |-> s[i].ts, value |-> IF i = Len(s) THEN NaN ELSE s[i + 1].value]]

\* prices.shift(1): each timestamp gets the value of the one before it.
shift(s) ==
    [i \in DOMAIN s |->
        [ts |-> s[i].ts, value |-> IF i = 1 THEN NaN ELSE s[i - 1].value]]

HasValue(e) == ~IsNaN(e.value)

\* np.log(prices / prices.shift(1)).dropna()
calculate_log_returns(prices) ==
    LET shifted == shift(prices)
        logs == [i \in DOMAIN prices |->
                    [ts |-> prices[i].ts,
                     value |-> FLog(FDiv(prices[i].value, shifted[i].value, 1000))]]
    IN  SelectSeq(logs, HasValue)

\* Latest timestamp of a price series.
MaxStamp == 4

PriceVals == {5000, 10000, 20000}

\* The series with index idx (a set of timestamps) and prices f, in
\* chronological order.
RECURSIVE SeriesOf(_, _)
SeriesOf(idx, f) ==
    IF idx = {} THEN <<>>
    ELSE LET last == CHOOSE t \in idx : \A u \in idx : u <= t
         IN  Append(SeriesOf(idx \ {last}, f), [ts |-> last, value |-> Num(f[last])])

LogReturnsInit ==
    /\ pc = "call"
    /\ \E idx \in SUBSET (1..MaxStamp) :
        \E f \in [idx -> PriceVals] :
            fn_call = [fn |-> "calculate_log_returns", prices |-> SeriesOf(idx, f)]
    /\ fn_out = Unset
    /\ decIdle /\ misIdle /\ jumpIdle /\ volIdle /\ regIdle /\ labIdle /\ driftIdle

CallCalculateLogReturns ==
    /\ pc = "call" /\ fn_call.fn = "calculate_log_returns"
    /\ fn_out' = Returned(calculate_log_returns(fn_call.prices))
    /\ pc' = "done"
    /\ UNCHANGED fn_call
    /\ UNCHANGED notFn

LogReturnsNext == CallCalculateLogReturns

SpecLogReturns == LogReturnsInit /\ [][LogReturnsNext]_vars

\* The number of doublings of the lowest price that give price p.
Doublings(p) == CHOOSE e \in 0..2 : p = Num(5000 * 2^e)

\* C14: n >= 1 positive prices with distinct chronological timestamps give
\* exactly n - 1 returns, the i-th being log(P_i / P_(i-1)) with the
\* timestamp of P_i, in the order of the prices.
C14_LogReturns ==
    (pc = "done" /\ Len(fn_call.prices) >= 1) =>
        LET prices == fn_call.prices
            out == fn_out.value
        IN  /\ fn_out.status = "returned"
            /\ Len(out) = Len(prices) - 1
            /\ \A i \in 1..(Len(prices) - 1) :
                /\ out[i].ts = prices[i + 1].ts
                /\ out[i].value
                     = Num(693 * (Doublings(prices[i + 1].value)
                                    - Doublings(prices[i].value)))

\* A series with a gap in its timestamps, a rise and a fall.
C14_Witness ==
    /\ pc = "done" /\ fn_call.fn = "calculate_log_returns"
    /\ Len(fn_call.prices) = 3
    /\ fn_call.prices[2].ts + 1 < fn_call.prices[3].ts
    /\ Len(fn_out.value) = 2
    /\ Gt(fn_out.value[1].value, Num(0))
    /\ Lt(fn_out.value[2].value, Num(0))

-----------------------------------------------------------------------------
(* Undefined standardized residuals in detect_jumps.                       *)

\* rolling_std is defined and zero at position i of returns.
zero_spread(rs, i, cfg) ==
    LET c == dropna(rs)
        k == clean_index(rs, i)
        P == WindowPos(k, cfg.window)
        n == Cardinality(P)
        v == ValOf(c)
        S == SumOver(P, v)
        Q == SumOver(P, [j \in P |-> v[j] * v[j]])
    IN  /\ ~IsNaN(rs[i])
        /\ IF cfg.use_robust THEN rolling_mad4(c, k, cfg.window) = Num(0)
           ELSE n >= MinPeriods /\ n * Q - S * S = 0

\* C15: on the normal path a timestamp whose rolling spread is zero is never
\* flagged as a jump, whatever its return.
C15_ZeroSpreadNotFlagged ==
    (pc = "done" /\ ~insufficient(returns, jd_cfg)) =>
        \A i \in DOMAIN returns :
            zero_spread(returns, i, jd_cfg) => ~is_jump[i]

-----------------------------------------------------------------------------
(* The order of the rules of detect_regimes.                               *)

crisis_condition(v, j, cfg) ==
    \/ v.num * 100 > cfg.high_vol_pct * v.den
    \/ j.num * 100 > cfg.jump_rate_threshold * j.den

bull_condition(v, j, cfg) ==
    /\ v.num * 100 < cfg.low_vol_pct * v.den
    /\ j.num * 200 < cfg.jump_rate_threshold * j.den

\* C16: per timestamp the first matching rule wins: (1) rank or jump rate
\* not finite gives (0, 1, 0); (2) the crisis condition gives crisis 0.7 /
\* sideways 0.3; (3) the bull condition gives bull 0.7 / sideways 0.3;
\* (4) otherwise (0, 1, 0).  Bull is non-zero only when the crisis
\* condition is false.
C16_FirstMatchWins ==
    pc = "done" =>
        \A t \in DOMAIN regimes :
            LET v == vol_rank(reg_vol, t, reg_cfg)
                j == jump_rate(reg_jump, t, reg_cfg)
            IN  /\ (~v.finite \/ ~j.finite) =>
                    regimes[t] = [bull |-> 0, sideways |-> 1000, crisis |-> 0]
                /\ (v.finite /\ j.finite /\ crisis_condition(v, j, reg_cfg)) =>
                    regimes[t] = [bull |-> 0, sideways |-> 300, crisis |-> 700]
                /\ (v.finite /\ j.finite /\ ~crisis_condition(v, j, reg_cfg)
                      /\ bull_condition(v, j, reg_cfg)) =>
                    regimes[t] = [bull |-> 700, sideways |-> 300, crisis |-> 0]
                /\ (v.finite /\ j.finite /\ ~crisis_condition(v, j, reg_cfg)
                      /\ ~bull_condition(v, j, reg_cfg)) =>
                    regimes[t] = [bull |-> 0, sideways |-> 1000, crisis |-> 0]
                /\ regimes[t].bull # 0 =>
                    (v.finite /\ j.finite /\ ~crisis_condition(v, j, reg_cfg))

\* A timestamp at which the crisis and the bull condition both hold.
C16_Witness ==
    /\ pc = "done"
    /\ \E t \in DOMAIN regimes :
        LET v == vol_rank(reg_vol, t, reg_cfg)
            j == jump_rate(reg_jump, t, reg_cfg)
        IN  /\ v.finite /\ j.finite
            /\ crisis_condition(v, j, reg_cfg)
            /\ bull_condition(v, j, reg_cfg)
            /\ regimes[t].crisis = 700

-----------------------------------------------------------------------------
(* DriftEngine.estimate_drift (modules/drift_engine.py).  Returns are in   *)
(* basis points, the drift x in micro, volatility in milli, the variances  *)
(* P, Q, R in micro.                                                       *)

\* The warm-up window: the first 20 valid returns.
WarmupLen == 20

\* P0 when there is no valid return, 1e-4.
DefaultP0 == 100

\* KalmanFilter(dim_x=1, dim_z=1): x = 0, P = Q = R = 1.
FreshKf == [x |-> Num(0), P |-> Num(1000000), Q |-> Num(1000000), R |-> Num(InitialR)]

\* warmup.var(): the sample variance (ddof = 1), NaN for a single value.
sample_var(s) ==
    LET n == Len(s)
    IN  IF n < 2 THEN NaN
        ELSE Num(DivT(DivT(n * SeqSumSq(s) - SeqSum(s) * SeqSum(s), n * (n - 1)), 100))

\* A call that keeps the filter mean and variance the engine already holds.
warm_start_carried_over(k, rs, cfg) == [x |-> k.x, P |-> k.P]

\* The warm start: kf.x = mean of the warm-up window, kf.P = max(variance of
\* the window, min_obs_variance); Python's max keeps a NaN first argument.
warm_start(k, rs, cfg) ==
    LET valid == dropna(rs)
        warmup == SubSeq(valid, 1, IF Len(valid) < WarmupLen THEN Len(valid)
                                   ELSE WarmupLen)
    IN  IF Len(warmup) > 0
        THEN [x |-> Num(DivT(SeqSum(warmup) * 100, Len(warmup))),
              P |-> PyMax(sample_var(warmup), Num(cfg.min_obs_variance))]
        ELSE [x |-> Num(cfg.initial_drift), P |-> Num(DefaultP0)]

\* regime_probabilities.loc[idx].idxmax(): the first column holding the
\* largest probability.
idxmax(p) ==
    IF p.bull >= p.sideways /\ p.bull >= p.crisis THEN "bull"
    ELSE IF p.sideways >= p.crisis THEN "sideways"
    ELSE "crisis"

\* np.nanmean(volatility.values)
nanmean(vs) ==
    LET F == {i \in DOMAIN vs : IsNum(vs[i])}
    IN  IF F = {} THEN NaN
        ELSE Num(DivT(SumOver(F, [i \in DOMAIN vs |-> Val(vs[i])]), Cardinality(F)))

\* The volatility handed to update_regime_parameters at timestamp t.
step_volatility(volatility, t, cfg) ==
    LET v == IF IsNum(volatility[t]) THEN volatility[t] ELSE nanmean(volatility)
    IN  IF ~IsNum(v) \/ Val(v) <= 0 THEN Num(Isqrt(cfg.min_obs_variance)) ELSE v

step_regime(c, t) ==
    IF c.regime_probabilities.given THEN idxmax(c.regime_probabilities.rows[t])
    ELSE "sideways"

\* kf.predict() with F = 1: x unchanged, P = P + Q.
kf_predict(k) == [k EXCEPT !.P = FAdd(k.P, k.Q)]

\* a * b / d on defined numbers, NaN otherwise.
FMulDiv(a, b, d) ==
    IF IsNum(a) /\ IsNum(b) /\ IsNum(d) /\ Val(d) # 0
    THEN Num(MulDiv(Val(a), Val(b), Val(d)))
    ELSE NaN

\* kf.update(z) with H = 1: K = P / (P + R), x = x + K (z - x),
\* P = (1 - K) P (1 - K) + K R K = P - P^2 / (P + R).
kf_update(k, z) ==
    LET S == FAdd(k.P, k.R)
    IN  [k EXCEPT !.x = FAdd(k.x, FMulDiv(k.P, FSub(z, k.x), S)),
                  !.P = FSub(k.P, FMulDiv(k.P, k.P, S))]

\* One pass of the loop over returns.items().
filter_step(k, c, t, cfg) ==
    LET upd == update_regime_parameters(
                   [regime |-> step_regime(c, t),
                    volatility |-> step_volatility(c.volatility, t, cfg),
                    adaptive |-> cfg.adaptive,
                    state_noise_factor |-> cfg.state_noise_factor,
                    min_obs_variance |-> cfg.min_obs_variance])
        tuned == [k EXCEPT !.Q = Num(upd.Q),
                           !.R = IF cfg.adaptive THEN upd.R ELSE @]
        predicted == kf_predict(tuned)
    IN  IF IsNum(c.returns[t])
        THEN kf_update(predicted, Num(Val(c.returns[t]) * 100))
        ELSE predicted

\* The loop over the returns at positions lo..hi, in order, on the engine k:
\* the drift and uncertainty entries it appends and the engine it leaves.
RECURSIVE filter_range(_, _, _, _, _)
filter_range(k, c, lo, hi, cfg) ==
    IF lo > hi THEN [drift |-> <<>>, uncertainty |-> <<>>, kf |-> k]
    ELSE IF lo = hi
    THEN LET after == filter_step(k, c, lo, cfg)
         IN  [drift |-> <<after.x>>, uncertainty |-> <<after.P>>, kf |-> after]
    ELSE LET mid == (lo + hi) \div 2
             head == filter_range(k, c, lo, mid, cfg)
             rest == filter_range(head.kf, c, mid + 1, hi, cfg)
         IN  [drift |-> head.drift \o rest.drift,
              uncertainty |-> head.uncertainty \o rest.uncertainty,
              kf |-> rest.kf]

\* The warm start followed by the loop over the first t returns.
filter_run(k, c, t, cfg) ==
    LET start == warm_start(k, c.returns, cfg)
    IN  filter_range([k EXCEPT !.x = start.x, !.P = start.P], c, 1, t, cfg)

\* estimate_drift: the closing log line reads drift.dropna().iloc[-1], an
\* IndexError when no drift value is defined.
estimate_drift(k, c, cfg) ==
    LET run == filter_run(k, c, Len(c.returns), cfg)
        P0 == warm_start(k, c.returns, cfg).P
    IN  [kf |-> run.kf,
         out |-> IF \A t \in DOMAIN run.drift : IsNaN(run.drift[t])
                 THEN [status |-> "error", value |-> "IndexError", P0 |-> P0]
                 ELSE [status |-> "returned", drift |-> run.drift,
                       uncertainty |-> run.uncertainty, P0 |-> P0]]

notDrift == <<decVars, misVars, jumpVars, volVars, regVars, labVars, fnVars>>

\* Longest series filtered.
MaxDriftLen == 2

DriftReturnVals == {NaN, Num(-100), Num(100)}
DriftConfigs ==
    [initial_drift : {0}, state_noise_factor : {10}, min_obs_variance : {1},
     adaptive : BOOLEAN]
DriftCalls ==
    UNION {
        {[returns |-> rs, volatility |-> [t \in 1..n |-> v],
          regime_probabilities |-> rp] :
            rs \in [1..n -> DriftReturnVals],
            v \in {NaN, Num(20)},
            rp \in {[given |-> FALSE, rows |-> <<>>]}
                    \cup {[given |-> TRUE, rows |-> [t \in 1..n |-> p]] :
                            p \in {TripleBull, TripleCrisis}}} :
        n \in 0..MaxDriftLen}

DriftInit ==
    /\ pc = "first"
    /\ kf = FreshKf
    /\ drift_cfg \in DriftConfigs
    /\ drift_call = [returns |-> <<>>]
    /\ drift_out = Unset
    /\ calls = 0
    /\ decIdle /\ misIdle /\ jumpIdle /\ volIdle /\ regIdle /\ labIdle /\ fnIdle

\* One call of estimate_drift on the engine as it stands.
estimate_drift_call(c) ==
    LET res == estimate_drift(kf, c, drift_cfg)
    IN  /\ drift_call' = c
        /\ kf' = res.kf
        /\ drift_out' = res.out
        /\ calls' = calls + 1
        /\ UNCHANGED drift_cfg
        /\ UNCHANGED notDrift

FirstEstimateDrift ==
    /\ pc = "first"
    /\ \E c \in DriftCalls : estimate_drift_call(c)
    /\ pc' = "second"

SecondEstimateDrift ==
    /\ pc = "second"
    /\ \E c \in DriftCalls : estimate_drift_call(c)
    /\ pc' = "done"

DriftNext ==
    \/ FirstEstimateDrift
    \/ SecondEstimateDrift

SpecDrift == DriftInit /\ [][DriftNext]_vars

\* C17: what a call of estimate_drift returns (or raises) is what a freshly
\* constructed engine with the same parameters returns for the same
\* arguments, whatever the engine processed before.
C17_CallsIndependent ==
    calls >= 1 => drift_out = estimate_drift(FreshKf, drift_call, drift_cfg).out

\* A second call on an engine whose filter holds the mean and variance left
\* by a first call on a different series.
C17_Witness ==
    /\ calls = 2
    /\ drift_out.status = "returned"
    /\ Len(drift_call.returns) = MaxDriftLen
    /\ IsNum(drift_out.uncertainty[MaxDriftLen])
    /\ kf.P # FreshKf.P
    /\ warm_start(kf, drift_call.returns, drift_cfg).P # kf.P

\* C18: the initial state variance is a defined number >= min_obs_variance
\* for every input series, and every returned uncertainty P_t is a defined
\* non-negative number.
C18_InitialVarianceFloored ==
    calls >= 1 =>
        /\ Ge(drift_out.P0, Num(drift_cfg.min_obs_variance))
        /\ drift_out.status = "returned" =>
            \A t \in DOMAIN drift_out.uncertainty : Ge(drift_out.uncertainty[t], Num(0))

-----------------------------------------------------------------------------
(* The stages of main() from the returns to the regime probabilities        *)
(* (main.py:83-148): jump detection, volatility, drift, regimes, in the    *)
(* order and with the arguments main() uses.                               *)

decRest == <<config, model_price, noise, market_price, mispricing, confidence,
             direction, position, verdict>>

IntsOf(s) == [t \in DOMAIN s |-> Val(s[t])]

\* Volatility in basis points as the drift engine's milli.
MilliOf(vol) == [t \in DOMAIN vol |-> IF IsNum(vol[t]) THEN Num(DivT(Val(vol[t]), 10)) ELSE vol[t]]

\* series.iloc[-1] as a float, scaled by s.
LastOf(s, scale) ==
    IF IsNum(s[Len(s)]) THEN Num(Val(s[Len(s)]) * scale) ELSE s[Len(s)]

\* Longest return series sent through the stages.
MaxPipeLen == 24

\* Return series: a repeating pattern with at most one spike.
PipeReturns ==
    {[t \in 1..n |-> IF t = spike THEN Num(900) ELSE Num(pat[((t - 1) % VolPeriod) + 1])] :
        n \in 1..MaxPipeLen, spike \in {0, 12, 22, 23},
        pat \in [1..VolPeriod -> {5, 50}]}

PipelineInit ==
    /\ pc = "jumps"
    /\ returns \in PipeReturns
    /\ jd_cfg \in {c \in JumpConfigs : c.threshold_den = 2}
    /\ is_jump = <<>> /\ jump_returns = <<>> /\ diffusion_returns = <<>>
    /\ vol_cfg \in VolConfigs
    /\ vol_returns = <<>> /\ vol_call = "none" /\ garch_fit = "none"
    /\ vol_probs = <<>> /\ vol_out = Unset
    /\ kf = FreshKf
    /\ drift_cfg \in DriftConfigs
    /\ drift_call = [returns |-> <<>>] /\ drift_out = Unset /\ calls = 0
    /\ reg_cfg \in {c \in RegimeConfigs : c.jump_window = 2 /\ c.high_vol_pct = 80}
    /\ reg_vol = <<>> /\ reg_jump = <<>> /\ regimes = <<>>
    /\ decIdle /\ misIdle /\ labIdle /\ fnIdle

\* main.py:92-95
PipeDetectJumps ==
    /\ pc = "jumps"
    /\ LET out == detect_jumps(returns, jd_cfg)
       IN  /\ is_jump' = out.is_jump
           /\ jump_returns' = out.jump_returns
           /\ diffusion_returns' = out.diffusion_returns
    /\ pc' = "volatility"
    /\ UNCHANGED <<returns, jd_cfg>>
    /\ UNCHANGED <<decVars, misVars, volVars, regVars, labVars, extVars>>

\* main.py:111-116: the EWMA with the bull decay, whatever the regime.
PipeVolatility ==
    /\ pc = "volatility"
    /\ vol_returns' = IntsOf(diffusion_returns)
    /\ vol_call' = [fn |-> "ewma_volatility", lambda_decay |-> vol_cfg.bull_lambda]
    /\ vol_out' = Returned(ewma_volatility(IntsOf(diffusion_returns),
                                           vol_cfg.bull_lambda, vol_cfg))
    /\ sigma_t' = LastOf(vol_out'.value, 100)
    /\ pc' = "drift"
    /\ UNCHANGED <<vol_cfg, garch_fit, vol_probs, uncertainty_t, probs, decRest>>
    /\ UNCHANGED <<misVars, jumpVars, regVars, labVars, extVars>>

\* main.py:129-135: estimate_drift with regime_probabilities=None.
PipeDrift ==
    /\ pc = "drift"
    /\ LET c == [returns |-> diffusion_returns,
                 volatility |-> MilliOf(vol_out.value),
                 regime_probabilities |-> [given |-> FALSE, rows |-> <<>>]]
           res == estimate_drift(kf, c, drift_cfg)
       IN  /\ drift_call' = c
           /\ kf' = res.kf
           /\ drift_out' = res.out
           /\ uncertainty_t' = IF res.out.status = "returned"
                               THEN LastOf(res.out.uncertainty, 1) ELSE uncertainty_t
           /\ pc' = IF res.out.status = "returned" THEN "regimes" ELSE "failed"
    /\ calls' = calls + 1
    /\ UNCHANGED <<drift_cfg, fnVars, sigma_t, probs, decRest>>
    /\ UNCHANGED <<misVars, jumpVars, volVars, regVars, labVars>>

\* main.py:140-148
PipeRegimes ==
    /\ pc = "regimes"
    /\ reg_vol' = vol_out.value
    /\ reg_jump' = is_jump
    /\ regimes' = detect_regimes(vol_out.value, is_jump, reg_cfg)
    /\ probs' = regimes'[Len(regimes')]
    /\ pc' = "done"
    /\ UNCHANGED <<reg_cfg, sigma_t, uncertainty_t, decRest>>
    /\ UNCHANGED <<misVars, jumpVars, volVars, labVars, extVars>>

PipelineNext ==
    \/ PipeDetectJumps
    \/ PipeVolatility
    \/ PipeDrift
    \/ PipeRegimes

SpecPipeline == PipelineInit /\ [][PipelineNext]_vars

\* C19: the regime probabilities feed the volatility and the drift stage:
\* the volatility that reaches the decision stage is the probability-
\* weighted blend of the three regime volatilities (for some outcome of the
\* GARCH fit), and the drift filter is run with the regime of each timestamp.
C19_RegimesConsumed ==
    pc = "done" =>
        /\ \E fit \in GarchFits :
            vol_out.value
              = compute_effective_volatility(vol_returns, regimes, vol_cfg, fit).value
        /\ drift_out
             = estimate_drift(FreshKf,
                              [drift_call EXCEPT !.regime_probabilities =
                                    [given |-> TRUE, rows |-> regimes]],
                              drift_cfg).out

-----------------------------------------------------------------------------
\* C21: with use_robust the standardized residual of a return is its distance
\* from the rolling median divided by 1.4826 times the rolling median absolute
\* deviation, and the rolling mean plays no part in it; without use_robust it
\* is the distance from the rolling mean divided by the rolling standard
\* deviation.  Stated on the flags: past the insufficient-data path, is_jump
\* holds exactly where that residual is defined and exceeds the threshold.
C21_RobustCenterIsMedian ==
    (pc = "done" /\ ~insufficient(returns, jd_cfg)) =>
        LET c == dropna(returns)
        IN  \A i \in DOMAIN returns :
                LET k == clean_index(returns, i)
                    med2 == rolling_median2(c, k, jd_cfg.window)
                    mad4 == rolling_mad4(c, k, jd_cfg.window)
                    dist2 == Abs(2 * Val(c[k]) - Val(med2))
                IN  is_jump[i] =
                        /\ ~IsNaN(returns[i])
                        /\ IF jd_cfg.use_robust
                           THEN /\ ~IsNaN(med2) /\ ~IsNaN(mad4)
                                /\ IF Val(mad4) = 0 THEN dist2 # 0
                                   ELSE dist2 * 2 * jd_cfg.threshold_den * 10000
                                            > jd_cfg.threshold_num * Val(mad4) * 14826
                           ELSE std_exceeds(c, k, jd_cfg)

-----------------------------------------------------------------------------
\* C22: whenever the verdict of main() is REFUSE the position it reports is
\* 0: no run ends with REFUSE and a non-zero position.
C22_RefuseMeansFlat ==
    (pc = "done" /\ verdict = "REFUSE") => FEq(position, Num(0))

-----------------------------------------------------------------------------
\* C23: both sizing strategies follow the sign convention of the decision
\* stage: given a positive volatility and non-negative penalties, a negative
\* mispricing (BUY) gives a position >= 0, a positive mispricing (SELL) a
\* position <= 0 and a zero mispricing the position 0, from the inline
\* sizing of main() and from KellyEngine.compute_kelly alike.
C23_SignConvention ==
    /\ (/\ pc = "done" /\ lab_call.component = "KellyEngine"
        /\ IsNum(lab_call.volatility) /\ Val(lab_call.volatility) > 0)
          => /\ lab_call.mispricing < 0 => lab_out.value >= 0
             /\ lab_call.mispricing > 0 => lab_out.value <= 0
             /\ lab_call.mispricing = 0 => lab_out.value = 0
    /\ (/\ position # Unset
        /\ IsNum(sigma_t) /\ Val(sigma_t) > 0
        /\ IsNum(uncertainty_t) /\ Val(uncertainty_t) >= 0)
          => /\ Lt(mispricing, Num(0)) => Ge(position, Num(0))
             /\ Gt(mispricing, Num(0)) => Le(position, Num(0))
             /\ FEq(mispricing, Num(0)) => FEq(position, Num(0))

-----------------------------------------------------------------------------
\* C24: for every jump_returns series, one with exactly one non-zero entry
\* included, estimate_jump_parameters returns defined finite numbers for
\* mu_j, sigma_j and lambda, with sigma_j >= 0 and 0 <= lambda <= 1.
C24_JumpParametersDefined ==
    (pc = "done" /\ fn_call.fn = "estimate_jump_parameters") =>
        /\ fn_out.status = "returned"
        /\ IsNum(fn_out.value.mu_j)
        /\ IsNum(fn_out.value.sigma_j) /\ Val(fn_out.value.sigma_j) >= 0
        /\ IsNum(fn_out.value.lambda)
        /\ Val(fn_out.value.lambda) >= 0 /\ Val(fn_out.value.lambda) <= 1000

=============================================================================
